---- MODULE Spec2Model ----
(***************************************************************************)
(* cloudflare_ddns.py: one invocation of the script resolves the public IP *)
(* through a list of echo services, lists the DNS records of the           *)
(* configured name and type, and creates or updates one record.            *)
(*                                                                         *)
(* Text is a sequence of one-character strings, so that str.strip() and    *)
(* ', '.join() are computed and not assumed.  An optional value (Python's  *)
(* None, a missing JSON key) is a sequence of length 0 or 1.               *)
(*                                                                         *)
(* A step runs the script from one network answer to the next: the answer  *)
(* is the step's input.  The constructor (config file, wizard, logging) is *)
(* taken to have succeeded.  The records the provider holds carry id and   *)
(* content, and a provider call that raised did not change them.           *)
(***************************************************************************)
EXTENDS Integers, Sequences, FiniteSets, TLC

VARIABLES
    config,      \* self.config as load_config returned it
    zone,        \* the provider's records of (RECORD_NAME, RECORD_TYPE), in response order
    pc,          \* where the invocation stands
    probes,      \* the echo services get_public_ip asked in this run, with their answers,
                 \* kept until update_dns goes on to the provider
    current_ip,  \* update_dns's current_ip: None, or Some(text)
    records,     \* update_dns's records
    calls,       \* the provider calls of this run: method, record id, body, and the answer
    reported,    \* the error texts this run logged (lines 261, 280, 306, 342), in order
    outcome,     \* how update_dns ended
    exception,   \* the exception that left update_dns, "" when none
    exit_code    \* the process exit status: None, or Some(0 | 1)

vars == <<config, zone, pc, probes, current_ip, records, calls,
          reported, outcome, exception, exit_code>>

\* ------------------------------------------------------------------ bounds

\* The longest body an echo service answers with.
MaxBody == 2
\* The most records the provider holds for the name and type.
MaxRecords == 2
\* The longest errors array of a provider answer.
MaxErrors == 2

\* ------------------------------------------------------------ option, text

None == <<>>

Some(x) == <<x>>

Whitespace == {" "}

Alphabet == {" ", "1"}

\* Every body of at most MaxBody characters.
Bodies == UNION {[1..n -> Alphabet] : n \in 0..MaxBody}

RECURSIVE LStrip(_)
LStrip(s) ==
    IF s # <<>> /\ Head(s) \in Whitespace THEN LStrip(Tail(s)) ELSE s

RECURSIVE RStrip(_)
RStrip(s) ==
    IF s # <<>> /\ s[Len(s)] \in Whitespace
    THEN RStrip(SubSeq(s, 1, Len(s) - 1))
    ELSE s

\* A strip that forgets the trailing whitespace (lstrip for strip).
StripLeadingOnly(s) == LStrip(s)

\* str.strip(): leading and trailing whitespace removed.
Strip(s) == RStrip(LStrip(s))

RECURSIVE Join(_, _)
\* sep.join(parts)
Join(sep, parts) ==
    IF parts = <<>> THEN <<>>
    ELSE IF Len(parts) = 1 THEN parts[1]
    ELSE parts[1] \o sep \o Join(sep, Tail(parts))

\* ------------------------------------------------------------------ config

DEFAULT_TTL == 60

DEFAULT_RECORD_NAME == "ddns.example.com"

\* RECORD_TYPE is whatever the config file or the wizard's prompt holds.
RecordTypes == {"A", "AAAA", "CNAME"}

\* get_public_ip's services table.
services ==
    [A |-> <<"https://api.ipify.org",
             "https://ipv4.icanhazip.com",
             "https://checkip.amazonaws.com">>,
     AAAA |-> <<"https://api6.ipify.org",
                "https://ipv6.icanhazip.com",
                "https://v6.ident.me">>]

\* services[record_type] (no list for a type the table does not hold).
ServiceList == IF config.RECORD_TYPE \in DOMAIN services
               THEN services[config.RECORD_TYPE] ELSE <<>>

\* ------------------------------------------------------- the echo services

\* What requests.get(service, timeout=10) and raise_for_status() can do:
\* raise (timeout, connection failure), answer non-2xx, or answer 2xx with a body.
IPResponses ==
    {[kind |-> k, text |-> <<>>] : k \in {"exception", "http_error"}}
    \cup {[kind |-> "ok", text |-> b] : b \in Bodies}

\* Lines 216-221 without the test of line 219: any 2xx answer is taken.
AcceptedAny2xx(resp) == resp.kind = "ok"

\* Lines 216-221: the answer is taken when nothing raised and the stripped
\* body is not empty.
Accepted(resp) == resp.kind = "ok" /\ Strip(resp.text) # <<>>

\* ------------------------------------------------------------ the provider

\* The i-th message of an errors array: i times "m", so that entries differ.
Msg(i) == [j \in 1..i |-> "m"]

ErrorsOfLen(k) == [i \in 1..k |-> [message |-> Msg(i)]]

\* The "errors" key of a JSON body: missing, or an array of 0..MaxErrors entries.
OptErrors == {None} \cup {Some(ErrorsOfLen(k)) : k \in 0..MaxErrors}

\* What one HTTP call to the provider can yield: requests raises without a
\* response; a non-2xx answer whose body may carry "errors"; a 2xx JSON body with
\* "success" true or with "success" false or missing (with or without "errors").
\* `result` says whether the body of a success carries what the code reads of it:
\* the matching records of a list (always), result.id of a create (or not).
ProviderResponses(method) ==
    {[status |-> "exception", success |-> FALSE, errors |-> None, result |-> FALSE]}
    \cup {[status |-> "http_error", success |-> FALSE, errors |-> e, result |-> FALSE]
            : e \in OptErrors}
    \cup {[status |-> "ok", success |-> TRUE, errors |-> None, result |-> r]
            : r \in IF method = "POST" THEN BOOLEAN ELSE {TRUE}}
    \cup {[status |-> "ok", success |-> FALSE, errors |-> e, result |-> FALSE]
            : e \in OptErrors}

\* str(e) of the RequestException.
StrException(resp) ==
    IF resp.status = "http_error" THEN <<"HTTPError">> ELSE <<"ConnectionError">>

\* Lines 251-259: the text cf_api_request builds from a RequestException.
error_msg(resp) ==
    IF resp.status = "http_error" /\ resp.errors # None
    THEN StrException(resp) \o <<" | ">>
         \o Join(<<", ">>, [i \in 1..Len(resp.errors[1]) |-> resp.errors[1][i].message])
    ELSE StrException(resp)

\* Lines 237-262: what cf_api_request returns, and what it logs at line 261.
cf_api_request(resp) ==
    IF resp.status = "ok"
    THEN [success |-> resp.success, errors |-> resp.errors, result |-> resp.result,
          logged |-> <<>>]
    ELSE [success |-> FALSE, errors |-> Some(<<[message |-> error_msg(resp)]>>),
          result |-> FALSE, logged |-> <<error_msg(resp)>>]

\* result.get("errors", [{}])[0] raises IndexError on an empty array.
ErrorsIndexable(result) == result.errors # Some(<<>>)

\* result.get("errors", [{}])[0].get("message", <unknown error>)
FirstErrorMessage(result) ==
    IF result.errors = None THEN <<"unknown error">>
    ELSE result.errors[1][1].message

\* The body of the create and of the update call (lines 289-295, 326-332).
record_data ==
    [type |-> config.RECORD_TYPE, name |-> config.RECORD_NAME,
     content |-> current_ip[1], ttl |-> config.TTL, proxied |-> FALSE]

\* The record the provider stores for a body it accepted under `id`.
Stored(id, data) ==
    [id |-> id, type |-> data.type, name |-> data.name, content |-> data.content,
     ttl |-> data.ttl, proxied |-> data.proxied]

\* The provider accepted the write: a POST adds a record, a PUT overwrites the
\* record of that id.
Applied(method, id, data) ==
    IF method = "POST" THEN Append(zone, Stored(Len(zone) + 1, data))
    ELSE [i \in 1..Len(zone) |-> IF zone[i].id = id THEN Stored(id, data) ELSE zone[i]]

\* ------------------------------------------------------------------- state

\* What the provider may hold for the name and type before the first run: up to
\* MaxRecords records, proxied or not, whose content the resolver can ("1") or
\* cannot ("9") come to report, with a ttl other than the configured one.
RemoteContents == {<<"1">>, <<"9">>}

InitialZones(type) ==
    UNION {
        {[i \in 1..n |->
            [id |-> i, type |-> type, name |-> DEFAULT_RECORD_NAME,
             content |-> c[i], ttl |-> DEFAULT_TTL * 5, proxied |-> p[i]]]
         : c \in [1..n -> RemoteContents], p \in [1..n -> BOOLEAN]}
        : n \in 0..MaxRecords}

Init ==
    /\ config \in {[RECORD_TYPE |-> t, RECORD_NAME |-> DEFAULT_RECORD_NAME,
                    TTL |-> DEFAULT_TTL] : t \in RecordTypes}
    /\ zone \in InitialZones(config.RECORD_TYPE)
    /\ pc = "idle"
    /\ probes = <<>>
    /\ current_ip = None
    /\ records = <<>>
    /\ calls = <<>>
    /\ reported = <<>>
    /\ outcome = "none"
    /\ exception = ""
    /\ exit_code = None

Running == {"get_public_ip", "resolved", "create", "update"}

Successful == {"created", "updated", "unchanged"}

\* Line 365: sys.exit(0 if success else 1).
ExitStatus(success) == IF success THEN 0 ELSE 1

\* update_dns returned; line 365 ends the process.
Finish(o) ==
    /\ outcome' = o
    /\ exception' = ""
    /\ exit_code' = Some(ExitStatus(o \in Successful))
    /\ pc' = "exited"

\* An Exception left update_dns: lines 369-371 print it and the script runs off
\* its end, which is exit status 0.
Raise(e) ==
    /\ outcome' = "raised"
    /\ exception' = e
    /\ exit_code' = Some(0)
    /\ pc' = "exited"

\* ----------------------------------------------------------------- actions

\* Lines 346-365, 264-266 and 200-214: the script is started (again) without
\* --reconfigure; get_public_ip looks up the services of the record type.
Invoke ==
    /\ pc \in {"idle", "exited"}
    /\ probes' = <<>>
    /\ current_ip' = None
    /\ records' = <<>>
    /\ calls' = <<>>
    /\ reported' = <<>>
    /\ IF config.RECORD_TYPE \in DOMAIN services
       THEN /\ pc' = "get_public_ip"
            /\ outcome' = "none"
            /\ exception' = ""
            /\ exit_code' = None
       ELSE Raise("KeyError")
    /\ UNCHANGED <<config, zone>>

\* Lines 214-227: the next service is asked; its answer is returned when it is
\* accepted, None is returned after the last service.
Probe ==
    /\ pc = "get_public_ip"
    /\ Len(probes) < Len(ServiceList)
    /\ \E resp \in IPResponses :
        LET service == ServiceList[Len(probes) + 1] IN
        /\ probes' = Append(probes, [service |-> service, kind |-> resp.kind,
                                     text |-> resp.text])
        /\ IF Accepted(resp)
           THEN /\ current_ip' = Some(Strip(resp.text))
                /\ pc' = "resolved"
           ELSE IF Len(probes) + 1 = Len(ServiceList)
           THEN /\ current_ip' = None
                /\ pc' = "resolved"
           ELSE UNCHANGED <<current_ip, pc>>
    /\ UNCHANGED <<config, zone, records, calls, reported, outcome,
                   exception, exit_code>>

\* Line 270: not current_ip (None, or an empty string).
NoCurrentIP(ip) == ip = None \/ ip = Some(<<>>)

\* Line 319 with the comparison lost: every run rewrites the record.
IPUnchangedNever(existing_ip, ip) == FALSE

\* Line 319: existing_ip == current_ip.
IPUnchanged(existing_ip, ip) == existing_ip = ip

\* Lines 278-282, 304-308, 340-344: the call failed; update_dns logs the first
\* error's message and returns False, or raises on an empty errors array.
Failed(result) ==
    IF ErrorsIndexable(result)
    THEN /\ reported' = reported \o result.logged \o <<FirstErrorMessage(result)>>
         /\ Finish("failed")
    ELSE /\ reported' = reported \o result.logged
         /\ Raise("IndexError")

\* Lines 269-322: without an IP update_dns returns False; else it lists the
\* records, and ends, or goes on to create or update.
ListRecords ==
    /\ pc = "resolved"
    /\ IF NoCurrentIP(current_ip)
       THEN /\ Finish("failed")
            /\ UNCHANGED <<probes, records, calls, reported>>
       ELSE \E resp \in ProviderResponses("GET") :
            LET result == cf_api_request(resp) IN
            /\ probes' = <<>>
            /\ calls' = Append(calls, [method |-> "GET", id |-> None, data |-> None,
                                       response |-> resp])
            /\ IF ~result.success
               THEN /\ Failed(result)
                    /\ UNCHANGED records
               ELSE LET listed == zone IN
                    /\ records' = listed
                    /\ reported' = reported
                    /\ IF listed = <<>>
                       THEN /\ pc' = "create"
                            /\ UNCHANGED <<outcome, exception, exit_code>>
                       ELSE IF IPUnchanged(listed[1].content, current_ip[1])
                       THEN Finish("unchanged")
                       ELSE /\ pc' = "update"
                            /\ UNCHANGED <<outcome, exception, exit_code>>
    /\ UNCHANGED <<config, zone, current_ip>>

\* Lines 288-308: the create call and what follows it.  The provider stores the
\* record when it answers success.
CreateRecord ==
    /\ pc = "create"
    /\ \E resp \in ProviderResponses("POST") :
        LET result == cf_api_request(resp) IN
        /\ calls' = Append(calls, [method |-> "POST", id |-> None,
                                   data |-> Some(record_data), response |-> resp])
        /\ IF result.success
           THEN /\ zone' = Applied("POST", 0, record_data)
                /\ reported' = reported
                /\ IF result.result
                   THEN Finish("created")
                   ELSE Raise("KeyError")
           ELSE /\ zone' = zone
                /\ Failed(result)
    /\ UNCHANGED <<config, probes, current_ip, records>>

\* Lines 314-316 and 324-344: the update call on the first listed record and
\* what follows it.  The provider overwrites the record when it answers success.
UpdateRecord ==
    /\ pc = "update"
    /\ \E resp \in ProviderResponses("PUT") :
        LET result == cf_api_request(resp)
            record_id == records[1].id
        IN
        /\ calls' = Append(calls, [method |-> "PUT", id |-> Some(record_id),
                                   data |-> Some(record_data), response |-> resp])
        /\ IF result.success
           THEN /\ zone' = Applied("PUT", record_id, record_data)
                /\ reported' = reported
                /\ Finish("updated")
           ELSE /\ zone' = zone
                /\ Failed(result)
    /\ UNCHANGED <<config, probes, current_ip, records>>

\* Lines 366-368: Ctrl-C while the run waits on the network.
Cancel ==
    /\ pc \in Running
    /\ outcome' = "cancelled"
    /\ exception' = "KeyboardInterrupt"
    /\ exit_code' = Some(1)
    /\ pc' = "exited"
    /\ UNCHANGED <<config, zone, probes, current_ip, records, calls, reported>>

Next ==
    \/ Invoke
    \/ Probe
    \/ ListRecords
    \/ CreateRecord
    \/ UpdateRecord
    \/ Cancel

Spec == Init /\ [][Next]_vars

\* ------------------------------------------------- vocabulary of the claims

AllWhite(s) == \A i \in 1..Len(s) : s[i] \in Whitespace

\* t is s without its leading and trailing whitespace.
IsTrimOf(t, s) ==
    \E i \in 1..(Len(s) + 1), j \in 0..Len(s) :
        /\ t = SubSeq(s, i, j)
        /\ AllWhite(SubSeq(s, 1, i - 1))
        /\ AllWhite(SubSeq(s, j + 1, Len(s)))
        /\ t = <<>> \/ (t[1] \notin Whitespace /\ t[Len(t)] \notin Whitespace)

\* The service answered 2xx with a body that is not empty once trimmed.
Usable(p) == p.kind = "ok" /\ ~AllWhite(p.text)

\* Every service of the type's list was asked and none was usable.
Exhausted ==
    /\ config.RECORD_TYPE \in DOMAIN services
    /\ Len(probes) = Len(services[config.RECORD_TYPE])
    /\ \A i \in 1..Len(probes) : ~Usable(probes[i])

\* The provider answered the call 2xx with success = true.
ProviderSuccess(call) == call.response.status = "ok" /\ call.response.success

\* The resolver returned an IP and the list call succeeded.
Listed ==
    /\ current_ip # None
    /\ calls # <<>>
    /\ calls[1].method = "GET"
    /\ ProviderSuccess(calls[1])

Writes == {i \in 1..Len(calls) : calls[i].method \in {"POST", "PUT"}}

\* The run ended otherwise than by Ctrl-C.
Ended == pc = "exited" /\ outcome # "cancelled"

\* ------------------------------------------------------------------ claims

\* C1: whenever the resolver returned an IP, the list call succeeded with at
\* least one record and the first listed record's content equals that IP, the
\* run has ended as unchanged with exit status 0, its only provider call is the
\* list call, and the provider's records are as listed; invocations repeat
\* without limit, so this holds of every run of a row of runs.
C1_Idempotence ==
    (Listed /\ records # <<>> /\ records[1].content = current_ip[1])
        => /\ pc = "exited"
           /\ outcome = "unchanged"
           /\ exit_code = Some(0)
           /\ Len(calls) = 1
           /\ Writes = {}
           /\ zone = records

\* C1's case: a run ends unchanged on a record an earlier run of the script wrote
\* (only the script writes DEFAULT_TTL), next to a second record.
C1_Witness ==
    /\ pc = "exited"
    /\ outcome = "unchanged"
    /\ Len(zone) = 2
    /\ zone[1].ttl = DEFAULT_TTL
    /\ zone[1].content = <<"1", "1">>
    /\ Writes = {}

\* C2: when every service of the record type's list failed or answered a body
\* that is empty after trimming, get_public_ip has returned None, and a run
\* without an IP makes no provider call and ends as failed with exit status 1.
C2_ResolverExhaustion ==
    /\ Exhausted => (current_ip = None /\ pc \in {"resolved", "exited"})
    /\ current_ip = None => calls = <<>>
    /\ (Exhausted /\ Ended)
         => (outcome = "failed" /\ exit_code = Some(1) /\ calls = <<>>)

\* C2's case: a timeout, a non-2xx answer and a blank body, and the run has failed.
C2_Witness ==
    /\ pc = "exited"
    /\ outcome = "failed"
    /\ Len(probes) = 3
    /\ probes[1].kind = "exception"
    /\ probes[2].kind = "http_error"
    /\ probes[3].kind = "ok" /\ probes[3].text = <<" ">>
    /\ calls = <<>>

\* C10: the services are asked in the order of the type's list; every service
\* asked before the last one asked was unusable; once a usable answer came the
\* resolver has returned its trimmed body and asks no further service; an
\* unusable answer leaves the resolver running until the list is exhausted, and
\* only then is no IP returned; no service is asked once update_dns has gone on
\* to the provider.
C10_ResolverFallbackOrder ==
    LET n == Len(probes) IN
    /\ n > 0 => config.RECORD_TYPE \in DOMAIN services
    /\ \A i \in 1..n : probes[i].service = services[config.RECORD_TYPE][i]
    /\ \A i \in 1..(n - 1) : ~Usable(probes[i])
    /\ (n > 0 /\ Usable(probes[n]))
         => /\ pc \in {"resolved", "exited"}
            /\ current_ip # None
            /\ IsTrimOf(current_ip[1], probes[n].text)
    /\ (n > 0 /\ ~Usable(probes[n]))
         => /\ current_ip = None
            /\ n < Len(services[config.RECORD_TYPE])
                 => (pc = "get_public_ip" \/ outcome = "cancelled")
            /\ n = Len(services[config.RECORD_TYPE])
                 => pc \in {"resolved", "exited"}
    /\ pc = "get_public_ip" => current_ip = None
    /\ pc = "resolved" => n > 0
    /\ (pc = "resolved" /\ current_ip = None) => Exhausted
    /\ (pc \in {"create", "update"} \/ calls # <<>>) => (n = 0 /\ current_ip # None)

\* C10's case: the first service answered non-2xx, the second a blank body, the
\* third a padded address, which is returned trimmed.
C10_Witness ==
    /\ pc = "resolved"
    /\ Len(probes) = 3
    /\ probes[1].kind = "http_error"
    /\ probes[2].kind = "ok" /\ probes[2].text = <<" ">>
    /\ probes[3].text = <<"1", " ">>
    /\ current_ip = Some(<<"1">>)

\* C3: a run that resolved an IP and listed zero records has issued exactly one
\* create call after the list call, with the body {type, name, ttl of the
\* config, content = the IP, proxied = false}, and ended as created when the
\* provider answered success and as failed when it did not.
C3_Creation ==
    (Ended /\ Listed /\ records = <<>>)
        => /\ Len(calls) = 2
           /\ calls[2].method = "POST"
           /\ calls[2].data = Some([type |-> config.RECORD_TYPE,
                                    name |-> config.RECORD_NAME,
                                    content |-> current_ip[1],
                                    ttl |-> config.TTL,
                                    proxied |-> FALSE])
           /\ outcome = IF ProviderSuccess(calls[2]) THEN "created" ELSE "failed"

\* C4: a run that listed records whose first content differs from the resolved
\* IP has issued exactly one update call, on the first listed record's id with
\* content = the IP, no create call, and ended as updated when the provider
\* answered success and as failed when it did not.
C4_UpdateCanonical ==
    (Ended /\ Listed /\ records # <<>> /\ records[1].content # current_ip[1])
        => /\ Len(calls) = 2
           /\ calls[2].method = "PUT"
           /\ calls[2].id = Some(records[1].id)
           /\ calls[2].data[1].content = current_ip[1]
           /\ outcome = IF ProviderSuccess(calls[2]) THEN "updated" ELSE "failed"

\* C5: a run issues at most one list call and at most one write call, never a
\* delete, and a provider call that failed is the run's last call and the run
\* has ended as failed.
C5_BoundedCalls ==
    /\ Cardinality({i \in 1..Len(calls) : calls[i].method = "GET"}) <= 1
    /\ Cardinality(Writes) <= 1
    /\ \A i \in 1..Len(calls) : calls[i].method \in {"GET", "POST", "PUT"}
    /\ \A i \in 1..Len(calls) :
         ~ProviderSuccess(calls[i])
            => (i = Len(calls) /\ pc = "exited" /\ outcome = "failed")

\* C6: after a successful update every record that was listed has the type,
\* the name and the proxied flag it was listed with.
C6_UpdateFrame ==
    outcome = "updated"
        => \A i \in 1..Len(records) :
             /\ zone[i].id = records[i].id
             /\ zone[i].type = records[i].type
             /\ zone[i].name = records[i].name
             /\ zone[i].proxied = records[i].proxied

\* C7: when a provider call was answered with success = false and an errors
\* array of one or more entries, what the run reports is the messages of all
\* entries of that array, joined.
C7_FailureMessage ==
    \A i \in 1..Len(calls) :
        LET r == calls[i].response IN
        (r.status # "exception" /\ ~r.success /\ r.errors # None /\ r.errors[1] # <<>>)
            => /\ reported # <<>>
               /\ \A k \in 1..Len(reported) :
                    reported[k] = Join(<<", ">>,
                        [m \in 1..Len(r.errors[1]) |-> r.errors[1][m].message])

\* C8: no partial success: a run that issued a write call has ended created or
\* updated, never failed or with an uncaught error.  Stated for the write calls
\* the provider accepted, the case the claim names: a run whose create or update
\* the provider answered with success has ended as created or updated.
C8_NoPartialSuccess ==
    (Ended /\ \E i \in Writes : ProviderSuccess(calls[i]))
        => outcome \in {"created", "updated"}

\* C8 as it reads in full: a run that has ended is created, updated or unchanged,
\* or it issued no write call.  (A write the provider rejected ends the run as
\* failed, so this fails on every rejected write too.)
NoFailureAfterWrite ==
    Ended => (outcome \in Successful \/ Writes = {})

====
